---- MODULE Spec2Model ----
(***************************************************************************)
(* Model of scripts/add_factory_to_extra_images.py: the PlatformIO hook    *)
(* that registers the factory binary in FLASH_EXTRA_IMAGES at the offset   *)
(* the partition table gives for the partition named "factory".            *)
(*                                                                         *)
(* Python strings that the script inspects (lines, fields, paths) are      *)
(* sequences of one-character strings, so that strip, split, startswith    *)
(* and os.path.join are computed character by character.  Optional values  *)
(* are sequences of length 0 (None) or 1.  A Python value that can be an   *)
(* int or a str (factory_offset) is a record tagged with its type.         *)
(***************************************************************************)
EXTENDS Integers, Sequences, FiniteSets, TLC

\* ------------------------------------------------------------------ bounds
\* Longest partition-table file (in lines) of the upload runs.
MaxLines == 2
\* Longest line body (in characters) of the exhaustive single-line files.
MaxLineLen == 6

\* --------------------------------------------------------- Python strings
None == <<>>
Some(x) == <<x>>

\* str.strip() with no argument strips ASCII whitespace.
Whitespace == {" ", "\t", "\n", "\r", "\f"}

RECURSIVE lstrip(_)
lstrip(s) ==
    IF s /= <<>> /\ Head(s) \in Whitespace THEN lstrip(Tail(s)) ELSE s

RECURSIVE rstrip(_)
rstrip(s) ==
    IF s /= <<>> /\ s[Len(s)] \in Whitespace
    THEN rstrip(SubSeq(s, 1, Len(s) - 1))
    ELSE s

strip(s) == rstrip(lstrip(s))

startswith(s, c) == s /= <<>> /\ Head(s) = c

endswith(s, c) == s /= <<>> /\ s[Len(s)] = c

\* str.split(sep) for a one-character separator: always at least one piece.
RECURSIVE split(_, _)
split(s, sep) ==
    IF \E i \in 1..Len(s) : s[i] = sep
    THEN LET i == CHOOSE k \in 1..Len(s) :
                      s[k] = sep /\ \A j \in 1..(k - 1) : s[j] /= sep
         IN  <<SubSeq(s, 1, i - 1)>> \o split(SubSeq(s, i + 1, Len(s)), sep)
    ELSE <<s>>

\* os.path.join(a, b) on POSIX.
path_join(a, b) ==
    IF startswith(b, "/") THEN b
    ELSE IF a = <<>> \/ endswith(a, "/") THEN a \o b
    ELSE a \o <<"/">> \o b

\* Python values of factory_offset: the int 0 or a str.
PyInt(n) == [type |-> "int", int |-> n, str |-> <<>>]
PyStr(s) == [type |-> "str", int |-> 0, str |-> s]

\* A mistaken reading of !=: the text "0" and the empty text count as 0.
PyNeCoercing(a, b) ==
    LET num(v) == IF v.type = "int" THEN Some(v.int)
                  ELSE IF v.str = <<>> \/ v.str = <<"0">> THEN Some(0)
                  ELSE None
    IN  IF num(a) /= None /\ num(b) /= None THEN num(a) /= num(b)
        ELSE a /= b

\* Python's a != b: values of different types are never equal.
PyNe(a, b) ==
    \/ a.type /= b.type
    \/ a.type = "int" /\ a.int /= b.int
    \/ a.type = "str" /\ a.str /= b.str

\* f"{v}": a str is itself, an int in 0..9 is its digit.
format(v) ==
    IF v.type = "str" THEN v.str
    ELSE <<(<<"0", "1", "2", "3", "4", "5", "6", "7", "8", "9">>)[v.int + 1]>>

\* -------------------------------------------------------------- constants
FACTORY_PARTITION_NAME == <<"f", "a", "c", "t", "o", "r", "y">>
PROJECT_DIR == <<"/", "p">>

NoException == [type |-> "", text |-> "", arg |-> <<>>]
Exception(text, arg) == [type |-> "Exception", text |-> text, arg |-> arg]
\* str + None at line 68.
TypeError == [type |-> "TypeError", text |-> "can only concatenate str to str", arg |-> <<>>]

\* ------------------------------------------------------------------ state
VARIABLES
    argv,                \* sys.argv
    FACTORY_BINARY,      \* project option custom_factory_binary
    build_partitions,    \* env.BoardConfig().get("build.partitions"): None or Some(name)
    fs,                  \* the regular files: path |-> lines
    pc,                  \* position in the script
    factory_image,       \* Optional[str]
    partition_table,     \* list of partition records
    factory_offset,      \* int 0 or the offset text
    rest,                \* partitions the for loop of line 127 has yet to visit
    FLASH_EXTRA_IMAGES,  \* env["FLASH_EXTRA_IMAGES"]
    entry0,              \* FLASH_EXTRA_IMAGES when the script was loaded
    raised,              \* the exception that ended the script, if any
    stdout,
    stderr,
    probed               \* paths handed to os.path.isfile or open

inputs == <<argv, FACTORY_BINARY, build_partitions, fs, entry0>>
vars == <<argv, FACTORY_BINARY, build_partitions, fs, pc, factory_image,
          partition_table, factory_offset, rest, FLASH_EXTRA_IMAGES, entry0,
          raised, stdout, stderr, probed>>

isfile(path) == path \in DOMAIN fs

\* ----------------------------------------------------- get_partition_table
\* The loop body with the field-count test off by one (four fields pass).
parse_line_min4(raw) ==
    LET line == strip(raw)
        parts == [i \in 1..Len(split(line, ",")) |-> strip(split(line, ",")[i])]
              \o <<<<>>>>
    IN  IF line = <<>> \/ startswith(line, "#") THEN <<>>
        ELSE IF Len(parts) - 1 < 4 THEN <<>>
        ELSE << [name    |-> parts[1],
                 type    |-> parts[2],
                 subtype |-> parts[3],
                 offset  |-> parts[4],
                 size    |-> parts[5],
                 flags   |-> IF Len(parts) - 1 > 5 THEN parts[6] ELSE <<>>] >>

\* The loop body taking flags from the last field instead of the sixth.
parse_line_lastflag(raw) ==
    LET line == strip(raw)
        parts == [i \in 1..Len(split(line, ",")) |-> strip(split(line, ",")[i])]
    IN  IF line = <<>> \/ startswith(line, "#") THEN <<>>
        ELSE IF Len(parts) < 5 THEN <<>>
        ELSE << [name    |-> parts[1],
                 type    |-> parts[2],
                 subtype |-> parts[3],
                 offset  |-> parts[4],
                 size    |-> parts[5],
                 flags   |-> IF Len(parts) > 5 THEN parts[Len(parts)] ELSE <<>>] >>

\* The body of the loop over the lines (73-89): no record or one record.
parse_line(raw) ==
    LET line == strip(raw)
        parts == [i \in 1..Len(split(line, ",")) |-> strip(split(line, ",")[i])]
    IN  IF line = <<>> \/ startswith(line, "#") THEN <<>>
        ELSE IF Len(parts) < 5 THEN <<>>
        ELSE << [name    |-> parts[1],
                 type    |-> parts[2],
                 subtype |-> parts[3],
                 offset  |-> parts[4],
                 size    |-> parts[5],
                 flags   |-> IF Len(parts) > 5 THEN parts[6] ELSE <<>>] >>

RECURSIVE parse_lines(_)
parse_lines(lines) ==
    IF lines = <<>> THEN <<>>
    ELSE parse_line(Head(lines)) \o parse_lines(Tail(lines))

partition_table_file_name == PROJECT_DIR \o <<"/">> \o build_partitions[1]

\* The call of line 122: the result, the exception and the diagnostics.
get_partition_table ==
    IF build_partitions = None
    THEN [raised |-> TypeError, value |-> <<>>, stderr |-> <<>>, probed |-> {}]
    ELSE IF partition_table_file_name /= <<>> /\ isfile(partition_table_file_name)
    THEN [raised |-> NoException,
          value  |-> parse_lines(fs[partition_table_file_name]),
          stderr |-> <<>>,
          probed |-> {partition_table_file_name}]
    ELSE [raised |-> NoException,
          value  |-> <<>>,
          stderr |-> <<"No partition table found or PARTITIONS_TABLE_CSV not set.">>,
          probed |-> {partition_table_file_name}]

\* ------------------------------------------------------- get_factory_image
get_factory_image ==
    IF FACTORY_BINARY /= <<>>
    THEN IF isfile(path_join(PROJECT_DIR, FACTORY_BINARY))
         THEN [value  |-> Some(path_join(PROJECT_DIR, FACTORY_BINARY)),
               stdout |-> <<>>,
               probed |-> {path_join(PROJECT_DIR, FACTORY_BINARY)}]
         ELSE [value  |-> None,
               stdout |-> <<"Factory binary does not exist!">>,
               probed |-> {path_join(PROJECT_DIR, FACTORY_BINARY)}]
    ELSE [value  |-> None,
          stdout |-> <<"No factory binary specified for environment!">>,
          probed |-> {}]

\* ----------------------------------------------------------------- inputs
\* Lines of partition-table files, as the iteration over the file yields them.
\* '# c\n'
LineComment ==
    <<"#", " ", "c", "\n">>
\* 'nvs,data,nvs,0x9,0x5,\n'
LineNvs ==
    <<"n", "v", "s", ",", "d", "a", "t", "a", ",", "n", "v", "s", ",", "0", "x", "9", ",", "0", "x", "5", ",", "\n">>
\* 'factory, app, factory, 0x10, 0x20,\n'
LineFactory ==
    <<"f", "a", "c", "t", "o", "r", "y", ",", " ", "a", "p", "p", ",", " ", "f", "a", "c", "t", "o", "r", "y", ",", " ", "0", "x", "1", "0", ",", " ", "0", "x", "2", "0", ",", "\n">>
\* 'factory,app,factory,0,0x20\n'
LineFactoryZero ==
    <<"f", "a", "c", "t", "o", "r", "y", ",", "a", "p", "p", ",", "f", "a", "c", "t", "o", "r", "y", ",", "0", ",", "0", "x", "2", "0", "\n">>
\* 'factory,app,factory,,0x20\n'
LineFactoryNoOffset ==
    <<"f", "a", "c", "t", "o", "r", "y", ",", "a", "p", "p", ",", "f", "a", "c", "t", "o", "r", "y", ",", ",", "0", "x", "2", "0", "\n">>
\* ' factory ,app,factory,0x30,0x20,enc,x\n'
LineFactoryFlags ==
    <<" ", "f", "a", "c", "t", "o", "r", "y", " ", ",", "a", "p", "p", ",", "f", "a", "c", "t", "o", "r", "y", ",", "0", "x", "3", "0", ",", "0", "x", "2", "0", ",", "e", "n", "c", ",", "x", "\n">>
\* 'factory,app,factory,0x40\n'
LineShort ==
    <<"f", "a", "c", "t", "o", "r", "y", ",", "a", "p", "p", ",", "f", "a", "c", "t", "o", "r", "y", ",", "0", "x", "4", "0", "\n">>
CuratedLines ==
    {LineComment,
     LineNvs,
     LineFactory,
     LineFactoryZero,
     LineFactoryNoOffset,
     LineFactoryFlags,
     LineShort}

SeqsUpTo(S, n) == UNION {[1..k -> S] : k \in 0..n}

\* The partition-table files of the upload runs.
CuratedFiles == SeqsUpTo(CuratedLines, MaxLines)

\* Every line of up to MaxLineLen characters over a small alphabet, newline-ended.
LineChars == {" ", ",", "#", "f", "0"}
AllLines == {body \o <<"\n">> : body \in SeqsUpTo(LineChars, MaxLineLen)}

TableName == <<"t">>
TablePath == <<"/", "p", "/", "t">>
ImageFiles == {{}, {<<"/", "p", "/", "a">>}, {<<"/", "a">>}}
OldEntry == << <<"0", "x", "8">>, <<"/", "p", "/", "b">> >>

\* A file system: the image files and, possibly, the partition-table file.
FileSystem(images, table) ==
    [path \in images \cup (IF table = None THEN {} ELSE {TablePath}) |->
        IF path = TablePath /\ table /= None THEN table[1] ELSE <<>>]

StartAt(p) ==
    /\ pc = p
    /\ factory_image = None
    /\ partition_table = <<>>
    /\ factory_offset = PyInt(0)
    /\ rest = <<>>
    /\ FLASH_EXTRA_IMAGES = entry0
    /\ raised = NoException
    /\ stdout = <<>>
    /\ stderr = <<>>
    /\ probed = {}

\* The script is loaded by the build tool: any command line, any configuration.
Init ==
    /\ argv \in {<<"pio", "run">>,
                 <<"pio", "run", "-t", "upload">>,
                 <<"pio", "run", "-t", "uploadfs">>}
    /\ FACTORY_BINARY \in {<<>>, <<"a">>, <<"/", "a">>}
    /\ build_partitions \in {None, Some(TableName)}
    /\ \E images \in ImageFiles :
       \E table \in {None} \cup {Some(f) : f \in CuratedFiles} :
            fs = FileSystem(images, table)
    /\ entry0 \in {<<>>, <<OldEntry>>}
    /\ StartAt("main")

\* ----------------------------------------------------------------- actions
\* Line 120 with a prefix test: "uploadfs" passes too.
MainPrefix ==
    /\ pc = "main"
    /\ pc' = IF \E i \in 1..Len(argv) : argv[i] \in {"upload", "uploadfs"}
             THEN "get_factory_image" ELSE "done"
    /\ UNCHANGED <<inputs, factory_image, partition_table, factory_offset, rest,
                   FLASH_EXTRA_IMAGES, raised, stdout, stderr, probed>>

\* Line 120.
Main ==
    /\ pc = "main"
    /\ pc' = IF \E i \in 1..Len(argv) : argv[i] = "upload"
             THEN "get_factory_image" ELSE "done"
    /\ UNCHANGED <<inputs, factory_image, partition_table, factory_offset, rest,
                   FLASH_EXTRA_IMAGES, raised, stdout, stderr, probed>>

\* Line 121.
CallGetFactoryImage ==
    /\ pc = "get_factory_image"
    /\ factory_image' = get_factory_image.value
    /\ stdout' = stdout \o get_factory_image.stdout
    /\ probed' = probed \cup get_factory_image.probed
    /\ pc' = "get_partition_table"
    /\ UNCHANGED <<inputs, partition_table, factory_offset, rest,
                   FLASH_EXTRA_IMAGES, raised, stderr>>

\* Lines 122-123: the call, which may raise, then factory_offset = 0.
CallGetPartitionTable ==
    /\ pc = "get_partition_table"
    /\ stderr' = stderr \o get_partition_table.stderr
    /\ probed' = probed \cup get_partition_table.probed
    /\ IF get_partition_table.raised /= NoException
       THEN /\ raised' = get_partition_table.raised
            /\ pc' = "raised"
            /\ UNCHANGED <<partition_table, factory_offset>>
       ELSE /\ partition_table' = get_partition_table.value
            /\ factory_offset' = PyInt(0)
            /\ pc' = "check_image"
            /\ UNCHANGED raised
    /\ UNCHANGED <<inputs, factory_image, rest, FLASH_EXTRA_IMAGES, stdout>>

\* Line 125, taken: enter the loop of line 127.
EnterLoop ==
    /\ pc = "check_image"
    /\ factory_image /= None
    /\ rest' = partition_table
    /\ pc' = "loop"
    /\ UNCHANGED <<inputs, factory_image, partition_table, factory_offset,
                   FLASH_EXTRA_IMAGES, raised, stdout, stderr, probed>>

\* Line 125, not taken: line 140.
RaiseNoImage ==
    /\ pc = "check_image"
    /\ factory_image = None
    /\ raised' = Exception("No factory image found!", <<>>)
    /\ pc' = "raised"
    /\ UNCHANGED <<inputs, factory_image, partition_table, factory_offset, rest,
                   FLASH_EXTRA_IMAGES, stdout, stderr, probed>>

\* A search that stops at the first match.
LoopStepFirstMatch ==
    /\ pc = "loop"
    /\ rest /= <<>>
    /\ factory_offset' =
          IF Head(rest).name = FACTORY_PARTITION_NAME /\ factory_offset = PyInt(0)
          THEN PyStr(Head(rest).offset) ELSE factory_offset
    /\ rest' = Tail(rest)
    /\ UNCHANGED <<inputs, pc, factory_image, partition_table,
                   FLASH_EXTRA_IMAGES, raised, stdout, stderr, probed>>

\* Lines 127-129: one iteration.
LoopStep ==
    /\ pc = "loop"
    /\ rest /= <<>>
    /\ factory_offset' =
          IF Head(rest).name = FACTORY_PARTITION_NAME
          THEN PyStr(Head(rest).offset) ELSE factory_offset
    /\ rest' = Tail(rest)
    /\ UNCHANGED <<inputs, pc, factory_image, partition_table,
                   FLASH_EXTRA_IMAGES, raised, stdout, stderr, probed>>

\* Lines 131-136 with the pair the wrong way round.
RegisterSwapped ==
    /\ pc = "loop"
    /\ rest = <<>>
    /\ PyNe(factory_offset, PyInt(0))
    /\ FLASH_EXTRA_IMAGES' =
          FLASH_EXTRA_IMAGES \o << <<factory_image[1], format(factory_offset)>> >>
    /\ pc' = "done"
    /\ UNCHANGED <<inputs, factory_image, partition_table, factory_offset, rest,
                   raised, stdout, stderr, probed>>

\* Lines 131-136.
Register ==
    /\ pc = "loop"
    /\ rest = <<>>
    /\ PyNe(factory_offset, PyInt(0))
    /\ FLASH_EXTRA_IMAGES' =
          FLASH_EXTRA_IMAGES \o << <<format(factory_offset), factory_image[1]>> >>
    /\ pc' = "done"
    /\ UNCHANGED <<inputs, factory_image, partition_table, factory_offset, rest,
                   raised, stdout, stderr, probed>>

\* Lines 131, 137-138.
RaiseNoOffset ==
    /\ pc = "loop"
    /\ rest = <<>>
    /\ ~PyNe(factory_offset, PyInt(0))
    /\ raised' = Exception("No offset found for partition: !", FACTORY_PARTITION_NAME)
    /\ pc' = "raised"
    /\ UNCHANGED <<inputs, factory_image, partition_table, factory_offset, rest,
                   FLASH_EXTRA_IMAGES, stdout, stderr, probed>>

Next ==
    \/ Main
    \/ CallGetFactoryImage
    \/ CallGetPartitionTable
    \/ EnterLoop
    \/ RaiseNoImage
    \/ LoopStep
    \/ Register
    \/ RaiseNoOffset

Spec == Init /\ [][Next]_vars

\* get_partition_table called on its own, on every short line and on the
\* files of the upload runs, with the table path set or not, the file there or not.
InitParse ==
    /\ argv = <<"pio", "run", "-t", "upload">>
    /\ FACTORY_BINARY = <<>>
    /\ entry0 = <<>>
    /\ \/ /\ build_partitions = Some(TableName)
          /\ \E l \in AllLines : fs = FileSystem({}, Some(<<l>>))
       \/ /\ build_partitions \in {None, Some(TableName)}
          /\ \E table \in {None} \cup {Some(f) : f \in CuratedFiles} :
                fs = FileSystem({}, table)
    /\ StartAt("get_partition_table")

NextParse == CallGetPartitionTable

SpecParse == InitParse /\ [][NextParse]_vars


\* ------------------------------------------------- vocabulary of the claims
Upload == \E i \in 1..Len(argv) : argv[i] = "upload"
Terminal == pc \in {"done", "raised"}
\* The call of get_partition_table has come back (returned or raised).
ReaderBack == pc /= "get_partition_table"

ImagePath == path_join(PROJECT_DIR, FACTORY_BINARY)
\* The configured option is non-empty and names an existing file.
ImageResolved == FACTORY_BINARY /= <<>> /\ ImagePath \in DOMAIN fs

NoImageError == Exception("No factory image found!", <<>>)
NoOffsetError == Exception("No offset found for partition: !", FACTORY_PARTITION_NAME)

\* Positions of the records named "factory" in the table the run read.
FactoryAt == {i \in 1..Len(partition_table) :
                 partition_table[i].name = FACTORY_PARTITION_NAME}
LastFactory == CHOOSE i \in FactoryAt : \A j \in FactoryAt : j <= i
ZeroText(o) == o = <<"0">> \/ o = <<>>

\* Exactly one entry was appended to the list the run started with.
AppendedOne ==
    /\ Len(FLASH_EXTRA_IMAGES) = Len(entry0) + 1
    /\ SubSeq(FLASH_EXTRA_IMAGES, 1, Len(entry0)) = entry0
NewEntry == FLASH_EXTRA_IMAGES[Len(FLASH_EXTRA_IMAGES)]

\* A line's text read without strip and split: its first and last
\* non-whitespace characters and the commas between them.
Ink(line) == {i \in 1..Len(line) : line[i] \notin Whitespace}
First(S) == CHOOSE i \in S : \A j \in S : i <= j
Last(S) == CHOOSE i \in S : \A j \in S : j <= i
Commas(line) == {i \in 1..Len(line) :
                    line[i] = "," /\ Ink(line) /= {}
                    /\ First(Ink(line)) <= i /\ i <= Last(Ink(line))}
\* The line yields a record.
Emits(line) ==
    /\ Ink(line) /= {}
    /\ line[First(Ink(line))] /= "#"
    /\ Cardinality(Commas(line)) >= 4
\* The k-th comma of the line; the 0-th and the one past the last are the
\* ends of the stripped text.
Comma(line, k) ==
    IF k = 0 THEN First(Ink(line)) - 1
    ELSE IF k > Cardinality(Commas(line)) THEN Last(Ink(line)) + 1
    ELSE CHOOSE i \in Commas(line) :
            Cardinality({j \in Commas(line) : j <= i}) = k
\* The k-th comma-separated field of the line, trimmed.
Field(line, k) ==
    LET raw == SubSeq(line, Comma(line, k - 1) + 1, Comma(line, k) - 1)
    IN  IF Ink(raw) = {} THEN <<>>
        ELSE SubSeq(raw, First(Ink(raw)), Last(Ink(raw)))
FieldCount(line) == Cardinality(Commas(line)) + 1

\* The file the reader read, and which of its lines yield the k-th record.
Lines == fs[TablePath]
EmitAt == {i \in 1..Len(Lines) : Emits(Lines[i])}
LineOf(k) == CHOOSE i \in EmitAt : Cardinality({j \in EmitAt : j <= i}) = k
\* The reader returned the records of an existing file.
TableRead == /\ ReaderBack
             /\ build_partitions /= None
             /\ TablePath \in DOMAIN fs


\* ------------------------------------------------------------------ claims

\* C1: in an upload run where the factory image was resolved and the table
\* read has a record named "factory" with a non-zero offset, the finished run
\* has raised nothing and has appended exactly one entry, the pair (offset
\* text of a record named "factory", image path); before it finishes the list
\* is as it was.
C1_RegistersFactory ==
    (/\ Upload
     /\ ImageResolved
     /\ \E i \in FactoryAt : ~ZeroText(partition_table[i].offset))
    => /\ Terminal =>
            /\ pc = "done"
            /\ raised = NoException
            /\ AppendedOne
            /\ NewEntry[2] = ImagePath
            /\ \E i \in FactoryAt : NewEntry[1] = partition_table[i].offset
            /\ Cardinality(FactoryAt) = 1 =>
                    NewEntry[1] = partition_table[LastFactory].offset
       /\ ~Terminal => FLASH_EXTRA_IMAGES = entry0

C1_Witness ==
    /\ pc = "done"
    /\ Upload
    /\ ImageResolved
    /\ entry0 /= <<>>
    /\ Cardinality(FactoryAt) = 1
    /\ NewEntry = << <<"0", "x", "1", "0">>, <<"/", "p", "/", "a">> >>

\* C2 (as claimed): an upload run with the image resolved and no record named
\* "factory" in its partition table (possibly empty) ends with the fatal
\* error naming the partition, and appends nothing.
C2_NoFactoryRecordIsFatal ==
    (Terminal /\ Upload /\ ImageResolved /\ FactoryAt = {})
    => /\ raised = NoOffsetError
       /\ FLASH_EXTRA_IMAGES = entry0

\* C3 (as claimed): an upload run with the image resolved whose records named
\* "factory" all have the offset "0" or the empty text ends with the fatal
\* error naming the partition, and appends nothing.
C3_ZeroTextIsNotFound ==
    (/\ Terminal /\ Upload /\ ImageResolved
     /\ FactoryAt /= {}
     /\ \A i \in FactoryAt : ZeroText(partition_table[i].offset))
    => /\ raised = NoOffsetError
       /\ FLASH_EXTRA_IMAGES = entry0

\* C3 (amended): the offset text "0" or the empty text on the last record
\* named "factory" is registered like any other: the finished upload run with
\* the image resolved has raised nothing and appended exactly the entry (that
\* text, image path).  The fatal error naming the partition is raised only
\* when the table read has no record named "factory".
C3_ZeroTextIsRegistered ==
    /\ (/\ Terminal /\ Upload /\ ImageResolved
        /\ FactoryAt /= {}
        /\ ZeroText(partition_table[LastFactory].offset))
       => /\ pc = "done"
          /\ raised = NoException
          /\ AppendedOne
          /\ NewEntry = <<partition_table[LastFactory].offset, ImagePath>>
    /\ raised = NoOffsetError => FactoryAt = {}

C3_Witness ==
    /\ pc = "done"
    /\ Upload
    /\ FactoryAt /= {}
    /\ \A i \in FactoryAt : partition_table[i].offset = <<"0">>
    /\ AppendedOne
    /\ NewEntry[1] = <<"0">>

\* C4 (as claimed): an upload run whose factory binary option is empty or
\* names no existing file ends with the fatal "No factory image found!",
\* whatever the partition-table configuration, and appends nothing.
C4_NoImageIsFatal ==
    (Terminal /\ Upload /\ ~ImageResolved)
    => /\ raised = NoImageError
       /\ FLASH_EXTRA_IMAGES = entry0

\* C5: without the token "upload" in the argument list the script changes
\* nothing: the list is as it was, no file was probed or opened, nothing was
\* printed and nothing raised, and it is over after line 120.
C5_NoUploadNoEffect ==
    ~Upload
    => /\ FLASH_EXTRA_IMAGES = entry0
       /\ probed = {}
       /\ raised = NoException
       /\ stdout = <<>> /\ stderr = <<>>
       /\ factory_image = None /\ partition_table = <<>>
       /\ pc \in {"main", "done"}

C5_Witness ==
    /\ pc = "done"
    /\ argv = <<"pio", "run", "-t", "uploadfs">>
    /\ ImageResolved
    /\ build_partitions /= None
    /\ TablePath \in DOMAIN fs
    /\ parse_lines(fs[TablePath]) /= <<>>

\* C6 (as claimed): when the board configuration has no "build.partitions"
\* value or the named file does not exist, get_partition_table returns the
\* empty sequence without raising, and only writes the diagnostic to stderr.
C6_AbsentTableIsEmpty ==
    (ReaderBack /\ (build_partitions = None \/ TablePath \notin DOMAIN fs))
    => /\ raised = NoException
       /\ partition_table = <<>>
       /\ stderr = <<"No partition table found or PARTITIONS_TABLE_CSV not set.">>
       /\ FLASH_EXTRA_IMAGES = entry0
       /\ stdout = <<>>

\* C7: the records of the table are, in order, one per line that, stripped,
\* is non-empty, does not start with "#" and has at least five
\* comma-separated fields; no other line yields a record.
C7_OneRecordPerDataLine ==
    TableRead
    => /\ Len(partition_table) = Cardinality(EmitAt)
       /\ \A k \in 1..Len(partition_table) :
             /\ partition_table[k].name = Field(Lines[LineOf(k)], 1)
             /\ partition_table[k].offset = Field(Lines[LineOf(k)], 4)

C7_Witness ==
    /\ TableRead
    /\ Len(Lines) = 2
    /\ Len(partition_table) = 2
    /\ partition_table[1].name /= partition_table[2].name

\* a line of four fields, a comment after leading whitespace and a blank
\* line were read and yielded nothing
C7_WitnessDropped ==
    /\ TableRead
    /\ partition_table = <<>>
    /\ Len(Lines) = 1
    /\ Lines[1] \in {<<"f", ",", "f", ",", "0", ",", "\n">>,
                     <<" ", "#", ",", ",", ",", ",", "\n">>,
                     <<" ", " ", "\n">>}

\* C8: each record takes name, type, subtype, offset and size from the
\* trimmed fields 1 to 5 of its line; flags is empty when the line has five
\* fields and the trimmed sixth field when it has six or more.
C8_FieldsOfRecord ==
    TableRead
    => \A k \in 1..Len(partition_table) :
          LET line == Lines[LineOf(k)]
              r == partition_table[k]
          IN  /\ r.name = Field(line, 1)
              /\ r.type = Field(line, 2)
              /\ r.subtype = Field(line, 3)
              /\ r.offset = Field(line, 4)
              /\ r.size = Field(line, 5)
              /\ FieldCount(line) = 5 => r.flags = <<>>
              /\ FieldCount(line) >= 6 => r.flags = Field(line, 6)

C8_Witness ==
    /\ TableRead
    /\ Lines = <<LineFactoryFlags, LineFactoryZero>>
    /\ Len(partition_table) = 2
    /\ partition_table[1].flags = <<"e", "n", "c">>
    /\ partition_table[1].name = FACTORY_PARTITION_NAME
    /\ partition_table[2].flags = <<>>

\* C9 (as claimed): a finished upload run has one of three outcomes: the
\* fatal "No factory image found!" exactly when no image was resolved, else
\* the fatal error naming the partition, else one entry appended; the list
\* grows only in the third, and its old entries stay.
C9_ThreeOutcomes ==
    /\ (Terminal /\ Upload) =>
          \/ /\ raised = NoImageError /\ ~ImageResolved
             /\ FLASH_EXTRA_IMAGES = entry0
          \/ /\ raised = NoOffsetError /\ ImageResolved
             /\ FLASH_EXTRA_IMAGES = entry0
          \/ /\ pc = "done" /\ raised = NoException /\ ImageResolved
             /\ AppendedOne
    /\ ~Terminal => FLASH_EXTRA_IMAGES = entry0

\* C10: with several records named "factory" and the image resolved, the
\* finished upload run has appended exactly one entry, and its offset is that
\* of the last such record of the table.
C10_LastFactoryWins ==
    (Terminal /\ Upload /\ ImageResolved /\ Cardinality(FactoryAt) >= 2)
    => /\ pc = "done"
       /\ raised = NoException
       /\ AppendedOne
       /\ NewEntry = <<partition_table[LastFactory].offset, ImagePath>>

C10_Witness ==
    /\ pc = "done"
    /\ Upload
    /\ Cardinality(FactoryAt) >= 2
    /\ partition_table[First(FactoryAt)].offset = <<"0", "x", "1", "0">>
    /\ partition_table[LastFactory].offset = <<"0", "x", "3", "0">>
    /\ NewEntry[1] = <<"0", "x", "3", "0">>

====
